---- MODULE Spec2Model ----
(***************************************************************************)
(* Model of src/data_item.rs: the OHLCV value object DataItem and its      *)
(* validating builder DataItemBuilder.                                     *)
(*                                                                         *)
(* An f64 is a record: a finite number (an integer of a small range) or    *)
(* NaN.  Comparisons follow IEEE-754 as Rust's PartialOrd for f64 does:    *)
(* every comparison with NaN is false.                                     *)
(* Option<T> is a sequence of length 0 (None) or 1 (Some).                 *)
(***************************************************************************)
EXTENDS Integers, Sequences, FiniteSets, TLC

VARIABLES
    builder,   \* Option<DataItemBuilder>: the builder the caller owns; None once moved into build()
    result,    \* Option<Result<DataItem>>: what the last build() returned, while the caller holds it
    bars,      \* the DataItems the caller has kept (unwrapped results)
    obs,       \* Option<observation>: the last accessor call and the value it returned
    built,     \* history: the builder that the last build() consumed
    last,      \* history: per setter, the argument of its most recent call on this builder
    rewrote,   \* history: some setter was called again with a different value on this builder
    reordered  \* history: some setter was called after the setter of a field declared later

vars == <<builder, result, bars, obs, built, last, rewrote, reordered>>

(* ----------------------------- bounds ---------------------------------- *)
MaxVal == 1
MaxBars == 1

(* ------------------------------ f64 ------------------------------------ *)
Num(n) == [k |-> "num", n |-> n]
NaN == [k |-> "nan", n |-> 0]
Zero == Num(0)

\* the values the setters are called with
Vals == {Num(n) : n \in (-1)..MaxVal} \cup {NaN}
\* the prices and the volume the setters are called with while the caller keeps bars
BarPrices == {Zero, Num(MaxVal)}
BarVolumes == {Num(MaxVal)}

\* a <= b on f64
Le(a, b) ==
    /\ a.k # "nan"
    /\ b.k # "nan"
    /\ a.n <= b.n

\* a >= b on f64
Ge(a, b) == Le(b, a)

\* a < b and a > b on f64, for stating properties and variants; build() uses <= and >= only
Lt(a, b) == Le(a, b) /\ ~Le(b, a)
Gt(a, b) == Lt(b, a)

(* ----------------------------- Option ---------------------------------- *)
None == <<>>
Some(x) == <<x>>
IsSome(o) == Len(o) = 1
IsNone(o) == Len(o) = 0

(* ----------------------------- Result ---------------------------------- *)
Ok(item) == <<"Ok", item>>
Err(kind) == <<"Err", kind>>
IsOk(r) == r[1] = "Ok"
IsErr(r) == r[1] = "Err"

(* --------------------------- DataItemBuilder --------------------------- *)
Canonical == <<"open", "high", "low", "close", "volume">>
Fields == {Canonical[i] : i \in 1..5}

new == [open |-> None, high |-> None, low |-> None, close |-> None, volume |-> None]

DataItemBuilder_open(b, val) == [b EXCEPT !.open = Some(val)]

\* variant: high() also pulls an already supplied low down to the new high
DataItemBuilder_high_Clamp(b, val) ==
    IF IsSome(b.low) /\ ~Le(b.low[1], val)
    THEN [b EXCEPT !.high = Some(val), !.low = Some(val)]
    ELSE [b EXCEPT !.high = Some(val)]

DataItemBuilder_high(b, val) == [b EXCEPT !.high = Some(val)]

DataItemBuilder_low(b, val) == [b EXCEPT !.low = Some(val)]

\* variant: close() keeps the first value it was given
DataItemBuilder_close_KeepFirst(b, val) ==
    IF IsSome(b.close) THEN b ELSE [b EXCEPT !.close = Some(val)]

DataItemBuilder_close(b, val) == [b EXCEPT !.close = Some(val)]

\* variant: volume() also writes the close slot
DataItemBuilder_volume_AlsoClose(b, val) ==
    [b EXCEPT !.volume = Some(val), !.close = Some(val)]

DataItemBuilder_volume(b, val) == [b EXCEPT !.volume = Some(val)]

Complete(b) ==
    IsSome(b.open) /\ IsSome(b.high) /\ IsSome(b.low) /\ IsSome(b.close) /\ IsSome(b.volume)

\* variant: validates first, on slots defaulted to 0.0, and only then looks for missing slots
build_ValidateFirst(b) ==
    LET d(o) == IF IsSome(o) THEN o[1] ELSE Zero
        open == d(b.open)
        high == d(b.high)
        low == d(b.low)
        close == d(b.close)
        volume == d(b.volume)
    IN  IF ~(Le(low, open) /\ Le(low, close) /\ Le(low, high)
             /\ Ge(high, open) /\ Ge(high, close) /\ Ge(volume, Zero) /\ Ge(low, Zero))
        THEN Err("DataItemInvalid")
        ELSE IF Complete(b)
             THEN Ok([open |-> open, high |-> high, low |-> low, close |-> close, volume |-> volume])
             ELSE Err("DataItemIncomplete")

\* variant: low < open instead of low <= open
build_StrictLow(b) ==
    IF Complete(b)
    THEN LET open == b.open[1]
             high == b.high[1]
             low == b.low[1]
             close == b.close[1]
             volume == b.volume[1]
         IN  IF Lt(low, open) /\ Le(low, close) /\ Le(low, high)
                /\ Ge(high, open) /\ Ge(high, close) /\ Ge(volume, Zero) /\ Ge(low, Zero)
             THEN Ok([open |-> open, high |-> high, low |-> low, close |-> close, volume |-> volume])
             ELSE Err("DataItemInvalid")
    ELSE Err("DataItemIncomplete")

\* variant: the relation high >= close is missing
build_NoHighClose(b) ==
    IF Complete(b)
    THEN LET open == b.open[1]
             high == b.high[1]
             low == b.low[1]
             close == b.close[1]
             volume == b.volume[1]
         IN  IF Le(low, open) /\ Le(low, close) /\ Le(low, high)
                /\ Ge(high, open) /\ Ge(volume, Zero) /\ Ge(low, Zero)
             THEN Ok([open |-> open, high |-> high, low |-> low, close |-> close, volume |-> volume])
             ELSE Err("DataItemInvalid")
    ELSE Err("DataItemIncomplete")

\* variant: open and close are exchanged when the item is constructed
build_SwapOpenClose(b) ==
    IF Complete(b)
    THEN LET open == b.open[1]
             high == b.high[1]
             low == b.low[1]
             close == b.close[1]
             volume == b.volume[1]
         IN  IF Le(low, open) /\ Le(low, close) /\ Le(low, high)
                /\ Ge(high, open) /\ Ge(high, close) /\ Ge(volume, Zero) /\ Ge(low, Zero)
             THEN Ok([open |-> close, high |-> high, low |-> low, close |-> open, volume |-> volume])
             ELSE Err("DataItemInvalid")
    ELSE Err("DataItemIncomplete")

\* variant: the relation low >= 0.0 is missing
build_NoLowNonNeg(b) ==
    IF Complete(b)
    THEN LET open == b.open[1]
             high == b.high[1]
             low == b.low[1]
             close == b.close[1]
             volume == b.volume[1]
         IN  IF Le(low, open) /\ Le(low, close) /\ Le(low, high)
                /\ Ge(high, open) /\ Ge(high, close) /\ Ge(volume, Zero)
             THEN Ok([open |-> open, high |-> high, low |-> low, close |-> close, volume |-> volume])
             ELSE Err("DataItemInvalid")
    ELSE Err("DataItemIncomplete")

\* variant: every relation is written as the negation of the opposite strict comparison
build_NegatedCmp(b) ==
    IF Complete(b)
    THEN LET open == b.open[1]
             high == b.high[1]
             low == b.low[1]
             close == b.close[1]
             volume == b.volume[1]
         IN  IF ~Gt(low, open) /\ ~Gt(low, close) /\ ~Gt(low, high)
                /\ ~Lt(high, open) /\ ~Lt(high, close) /\ ~Lt(volume, Zero) /\ ~Lt(low, Zero)
             THEN Ok([open |-> open, high |-> high, low |-> low, close |-> close, volume |-> volume])
             ELSE Err("DataItemInvalid")
    ELSE Err("DataItemIncomplete")

build(b) ==
    IF Complete(b)
    THEN LET open == b.open[1]
             high == b.high[1]
             low == b.low[1]
             close == b.close[1]
             volume == b.volume[1]
         IN  IF Le(low, open) /\ Le(low, close) /\ Le(low, high)
                /\ Ge(high, open) /\ Ge(high, close) /\ Ge(volume, Zero) /\ Ge(low, Zero)
             THEN Ok([open |-> open, high |-> high, low |-> low, close |-> close, volume |-> volume])
             ELSE Err("DataItemInvalid")
    ELSE Err("DataItemIncomplete")

(* ------------------------------ DataItem ------------------------------- *)
DataItem_open(item) == item.open
DataItem_high(item) == item.high
DataItem_low(item) == item.low
DataItem_close(item) == item.close
DataItem_volume(item) == item.volume

(* ------------------------------ actions -------------------------------- *)
NoCalls == [f \in Fields |-> None]

Init ==
    /\ builder = None
    /\ result = None
    /\ bars = <<>>
    /\ obs = None
    /\ built = None
    /\ last = NoCalls
    /\ rewrote = FALSE
    /\ reordered = FALSE

\* DataItem::builder(): the caller starts a construction, dropping the previous one and its result
Start ==
    /\ builder' = Some(new)
    /\ result' = None
    /\ built' = None
    /\ last' = NoCalls
    /\ rewrote' = FALSE
    /\ reordered' = FALSE
    /\ UNCHANGED <<bars, obs>>

\* the place of a field in the declaration of the struct
Position(f) == CHOOSE i \in 1..5 : Canonical[i] = f

Called(f, val) ==
    /\ last' = [last EXCEPT ![f] = Some(val)]
    /\ rewrote' = (rewrote \/ (IsSome(last[f]) /\ last[f][1] # val))
    /\ reordered' = (reordered \/ \E g \in Fields : Position(f) < Position(g) /\ IsSome(last[g]))

SetOpen(val) ==
    /\ IsSome(builder)
    /\ builder' = Some(DataItemBuilder_open(builder[1], val))
    /\ Called("open", val)
    /\ UNCHANGED <<result, bars, obs, built>>

SetHigh(val) ==
    /\ IsSome(builder)
    /\ builder' = Some(DataItemBuilder_high(builder[1], val))
    /\ Called("high", val)
    /\ UNCHANGED <<result, bars, obs, built>>

SetLow(val) ==
    /\ IsSome(builder)
    /\ builder' = Some(DataItemBuilder_low(builder[1], val))
    /\ Called("low", val)
    /\ UNCHANGED <<result, bars, obs, built>>

SetClose(val) ==
    /\ IsSome(builder)
    /\ builder' = Some(DataItemBuilder_close(builder[1], val))
    /\ Called("close", val)
    /\ UNCHANGED <<result, bars, obs, built>>

SetVolume(val) ==
    /\ IsSome(builder)
    /\ builder' = Some(DataItemBuilder_volume(builder[1], val))
    /\ Called("volume", val)
    /\ UNCHANGED <<result, bars, obs, built>>

\* build(self): the builder is moved into build() and the caller holds the result
Build ==
    /\ IsSome(builder)
    /\ result' = Some(build(builder[1]))
    /\ built' = builder
    /\ builder' = None
    /\ UNCHANGED <<bars, obs, last, rewrote, reordered>>

\* result.unwrap(): the caller moves the DataItem out of a successful result and keeps it
Keep ==
    /\ IsSome(result)
    /\ IsOk(result[1])
    /\ Len(bars) < MaxBars
    /\ bars' = Append(bars, result[1][2])
    /\ result' = None
    /\ built' = None
    /\ last' = NoCalls
    /\ rewrote' = FALSE
    /\ reordered' = FALSE
    /\ UNCHANGED <<builder, obs>>

Observed(i, f, v) == obs' = Some([idx |-> i, field |-> f, val |-> v])

ReadOpen(i) ==
    /\ i \in DOMAIN bars
    /\ Observed(i, "open", DataItem_open(bars[i]))
    /\ UNCHANGED <<builder, result, bars, built, last, rewrote, reordered>>

ReadHigh(i) ==
    /\ i \in DOMAIN bars
    /\ Observed(i, "high", DataItem_high(bars[i]))
    /\ UNCHANGED <<builder, result, bars, built, last, rewrote, reordered>>

ReadLow(i) ==
    /\ i \in DOMAIN bars
    /\ Observed(i, "low", DataItem_low(bars[i]))
    /\ UNCHANGED <<builder, result, bars, built, last, rewrote, reordered>>

ReadClose(i) ==
    /\ i \in DOMAIN bars
    /\ Observed(i, "close", DataItem_close(bars[i]))
    /\ UNCHANGED <<builder, result, bars, built, last, rewrote, reordered>>

\* variant: volume() takes the value out of the item, leaving 0.0 behind
ReadVolume_Take(i) ==
    /\ i \in DOMAIN bars
    /\ Observed(i, "volume", DataItem_volume(bars[i]))
    /\ bars' = [bars EXCEPT ![i].volume = Zero]
    /\ UNCHANGED <<builder, result, built, last, rewrote, reordered>>

ReadVolume(i) ==
    /\ i \in DOMAIN bars
    /\ Observed(i, "volume", DataItem_volume(bars[i]))
    /\ UNCHANGED <<builder, result, bars, built, last, rewrote, reordered>>

\* the builder protocol, over every kind of f64
Next ==
    \/ Start
    \/ \E val \in Vals : SetOpen(val)
    \/ \E val \in Vals : SetHigh(val)
    \/ \E val \in Vals : SetLow(val)
    \/ \E val \in Vals : SetClose(val)
    \/ \E val \in Vals : SetVolume(val)
    \/ Build

Spec == Init /\ [][Next]_vars

\* the builder protocol together with a caller that keeps the bars and reads them
NextBars ==
    \/ Start
    \/ \E val \in BarPrices : SetOpen(val)
    \/ \E val \in BarPrices : SetHigh(val)
    \/ \E val \in BarPrices : SetLow(val)
    \/ \E val \in BarPrices : SetClose(val)
    \/ \E val \in BarVolumes : SetVolume(val)
    \/ Build
    \/ Keep
    \/ \E i \in 1..MaxBars : ReadOpen(i)
    \/ \E i \in 1..MaxBars : ReadHigh(i)
    \/ \E i \in 1..MaxBars : ReadLow(i)
    \/ \E i \in 1..MaxBars : ReadClose(i)
    \/ \E i \in 1..MaxBars : ReadVolume(i)

SpecBars == Init /\ [][NextBars]_vars

(* ------------------------ stating the properties ----------------------- *)
\* the builder consumed by the build() whose result the caller holds
HasResult == IsSome(result) /\ IsSome(built)
Built == built[1]
Outcome == result[1]
Item == result[1][2]

IsNaN(x) == x.k = "nan"

\* the seven relations of the consistency check, on five values
RelationsHold(open, high, low, close, volume) ==
    /\ Le(low, open)
    /\ Le(low, close)
    /\ Le(low, high)
    /\ Ge(high, open)
    /\ Ge(high, close)
    /\ Ge(volume, Zero)
    /\ Ge(low, Zero)

\* two outcomes of build() are the same: both Ok with equal fields, or both Err of one kind
SameOutcome(r1, r2) == r1[1] = r2[1] /\ r1[2] = r2[2]

\* the builder obtained from a fresh one by calling, in the order p, the setter of each
\* field that l gives a value
SetField(b, f, val) ==
    CASE f = "open" -> DataItemBuilder_open(b, val)
      [] f = "high" -> DataItemBuilder_high(b, val)
      [] f = "low" -> DataItemBuilder_low(b, val)
      [] f = "close" -> DataItemBuilder_close(b, val)
      [] f = "volume" -> DataItemBuilder_volume(b, val)

RECURSIVE ReplayFrom(_, _, _, _)
ReplayFrom(b, p, l, i) ==
    IF i > Len(p)
    THEN b
    ELSE ReplayFrom(IF IsSome(l[p[i]]) THEN SetField(b, p[i], l[p[i]][1]) ELSE b, p, l, i + 1)

Replay(p, l) == ReplayFrom(new, p, l, 1)

RECURSIVE PermsOf(_)
PermsOf(S) ==
    IF S = {} THEN {<<>>} ELSE UNION {{<<f>> \o p : p \in PermsOf(S \ {f})} : f \in S}

Perms == PermsOf(Fields)

\* C1: a build() of a builder with at least one slot unset fails with DataItemIncomplete,
\* whatever the values of the slots that are set
C1_IncompleteBeforeInvalid ==
    (HasResult /\ ~Complete(Built)) => (IsErr(Outcome) /\ Outcome[2] = "DataItemIncomplete")

\* C1 witness: an incomplete builder whose set values already violate low <= high, or hold a
\* negative volume, has been built
C1_Witness ==
    /\ HasResult
    /\ ~Complete(Built)
    /\ IsErr(Outcome)
    /\ \/ IsSome(Built.low) /\ IsSome(Built.high) /\ Gt(Built.low[1], Built.high[1])
       \/ IsSome(Built.volume) /\ Lt(Built.volume[1], Zero)

\* C2: a build() of a fully populated builder succeeds exactly when the seven relations hold,
\* and otherwise fails with DataItemInvalid
C2_OkIffRelations ==
    (HasResult /\ Complete(Built)) =>
        LET ok == RelationsHold(Built.open[1], Built.high[1], Built.low[1],
                                Built.close[1], Built.volume[1])
        IN  /\ IsOk(Outcome) <=> ok
            /\ ~ok => (IsErr(Outcome) /\ Outcome[2] = "DataItemInvalid")

\* C2 witness: a fully populated builder that violates volume >= 0 alone was rejected as invalid
C2_Witness ==
    /\ HasResult
    /\ Complete(Built)
    /\ RelationsHold(Built.open[1], Built.high[1], Built.low[1], Built.close[1], Zero)
    /\ ~Ge(Built.volume[1], Zero)
    /\ IsErr(Outcome)
    /\ Outcome[2] = "DataItemInvalid"

\* C3: every DataItem that build() returns has low as the minimum and high as the maximum of
\* the four prices, a volume >= 0 and a low >= 0
C3_BarInvariant ==
    (IsSome(result) /\ IsOk(Outcome)) =>
        /\ Le(Item.low, Item.open)
        /\ Le(Item.low, Item.close)
        /\ Le(Item.low, Item.high)
        /\ Ge(Item.high, Item.open)
        /\ Ge(Item.high, Item.close)
        /\ Ge(Item.high, Item.low)
        /\ Ge(Item.volume, Zero)
        /\ Ge(Item.low, Zero)

\* C3 witness: a DataItem with low < close = high was built
C3_Witness ==
    /\ IsSome(result)
    /\ IsOk(Outcome)
    /\ Lt(Item.low, Item.high)
    /\ Item.close = Item.high

\* C4: the accessors of a built DataItem return the values that the builder's slots held
\* when build() was called
C4_AccessorsReturnSlots ==
    (HasResult /\ IsOk(Outcome)) =>
        /\ DataItem_open(Item) = Built.open[1]
        /\ DataItem_high(Item) = Built.high[1]
        /\ DataItem_low(Item) = Built.low[1]
        /\ DataItem_close(Item) = Built.close[1]
        /\ DataItem_volume(Item) = Built.volume[1]

\* C4 witness: a DataItem was built from slots with open # close and low # high
C4_Witness ==
    /\ HasResult
    /\ IsOk(Outcome)
    /\ Built.open[1] # Built.close[1]
    /\ Built.low[1] # Built.high[1]
    /\ Built.volume[1] # Built.low[1]

\* C5: the outcome of build() is the outcome of building a fresh builder on which each
\* setter was called once, with the argument of its most recent call
C5_LastCallWins ==
    IsSome(result) => SameOutcome(Outcome, build(Replay(Canonical, last)))

\* C5 witness: a builder on which some setter was called again with a different value was
\* built successfully
C5_Witness ==
    /\ IsSome(result)
    /\ rewrote
    /\ IsOk(Outcome)

\* C6: the outcome of build() is the outcome of calling the setters with the same final
\* values in any permutation of order, for a full or a partial set of fields
C6_OrderIndependent ==
    IsSome(result) =>
        \A p \in Perms : SameOutcome(Outcome, build(Replay(p, last)))

\* C6 witness: a fully populated builder whose setters were not called in the order of
\* declaration was built successfully
C6_Witness ==
    /\ HasResult
    /\ Complete(Built)
    /\ reordered
    /\ IsOk(Outcome)

\* C7: a fully populated builder with a negative field is rejected, and every built DataItem
\* has four prices and a volume that are >= 0
C7_NoNegativeField ==
    /\ (HasResult /\ Complete(Built)
        /\ \E f \in Fields : Lt(Built[f][1], Zero)) => IsErr(Outcome)
    /\ (IsSome(result) /\ IsOk(Outcome)) =>
           \A f \in Fields : Ge(Item[f], Zero)

\* C7 witness: a fully populated builder with a negative open, but low >= 0 and volume >= 0,
\* was rejected
C7_Witness ==
    /\ HasResult
    /\ Complete(Built)
    /\ Lt(Built.open[1], Zero)
    /\ Ge(Built.low[1], Zero)
    /\ Ge(Built.volume[1], Zero)
    /\ IsErr(Outcome)

\* C8: a fully populated builder with a NaN in any field is rejected with DataItemInvalid
C8_NaNRejected ==
    (HasResult /\ Complete(Built) /\ \E f \in Fields : IsNaN(Built[f][1])) =>
        (IsErr(Outcome) /\ Outcome[2] = "DataItemInvalid")

\* C8 witness: a fully populated builder whose only defect is a NaN close was rejected
C8_Witness ==
    /\ HasResult
    /\ Complete(Built)
    /\ IsNaN(Built.close[1])
    /\ RelationsHold(Built.open[1], Built.high[1], Built.low[1], Built.low[1], Built.volume[1])
    /\ IsErr(Outcome)

\* C9: no step changes a DataItem the caller holds, and an accessor called again on the same
\* DataItem returns the same value
C9_Immutable ==
    [][/\ \A i \in DOMAIN bars : i \in DOMAIN bars' /\ bars'[i] = bars[i]
       /\ (IsSome(obs) /\ IsSome(obs')
           /\ obs'[1].idx = obs[1].idx /\ obs'[1].field = obs[1].field)
              => obs'[1].val = obs[1].val]_vars

\* C9 witness: with a DataItem kept and read, a later builder has had a setter called
C9_Witness ==
    /\ Len(bars) >= 1
    /\ IsSome(obs)
    /\ obs[1].field = "volume"
    /\ bars[1].volume # Zero
    /\ IsSome(builder)
    /\ IsSome(builder[1].volume)

\* the slots of b2 are those of b1, but for slot f, which holds val
OnlySlot(b1, b2, f, val) ==
    /\ b2[f] = Some(val)
    /\ \A g \in Fields \ {f} : b2[g] = b1[g]

\* C10: a fresh builder has all five slots unset, and a setter call stores its argument in
\* its own slot and leaves the other four slots as they were
C10_SetterFrame ==
    [][/\ Start => \A f \in Fields : builder'[1][f] = None
       /\ \A f \in Fields :
            IsSome(last'[f]) =>
                LET val == last'[f][1]
                IN  /\ (f = "open" /\ SetOpen(val)) => OnlySlot(builder[1], builder'[1], f, val)
                    /\ (f = "high" /\ SetHigh(val)) => OnlySlot(builder[1], builder'[1], f, val)
                    /\ (f = "low" /\ SetLow(val)) => OnlySlot(builder[1], builder'[1], f, val)
                    /\ (f = "close" /\ SetClose(val)) => OnlySlot(builder[1], builder'[1], f, val)
                    /\ (f = "volume" /\ SetVolume(val)) => OnlySlot(builder[1], builder'[1], f, val)]_vars

\* C10 witness: a builder with volume set over an earlier value, close set and low still unset
C10_Witness ==
    /\ IsSome(builder)
    /\ rewrote
    /\ IsSome(builder[1].volume)
    /\ IsSome(builder[1].close)
    /\ builder[1].close # builder[1].volume
    /\ IsNone(builder[1].low)

====
